---- MODULE Spec2Model ----
(***************************************************************************)
(* A model of AIAgentEventHandler (ai_agent_handler.py): the streaming     *)
(* text classifier process_text_content, the partial JSON completer        *)
(* try_complete_json with process_and_send_json, the outbound dispatcher   *)
(* send_data_to_stream with invoke_async_funct, the construction of the    *)
(* handler with its MCP HTTP clients, and the tool resolver get_function.  *)
(*                                                                         *)
(* A Python str is a sequence of one-character strings.  An Optional       *)
(* value is a set with at most one element: None is {}.                    *)
(***************************************************************************)
EXTENDS Integers, Sequences, FiniteSets, TLC

VARIABLES
    _run,                      \* self._run: None or the bound run
    _connection_id,            \* self._connection_id: None or the bound id
    setting,                   \* self.setting, the keys the handler reads
    index,                     \* the chunk index the run loop threads through
    accumulated_partial_text,  \* the text buffer the run loop threads through
    complete_accumulated_json, \* the JSON flushed so far
    accumulated_partial_json,  \* the JSON pending
    emitted,                   \* history: every call of send_data_to_stream
    delivered,                 \* history: every envelope handed to the invoker
    call,                      \* the arguments of the last operation called
    out,                       \* the send_data_to_stream calls of that operation
    calls,                     \* the number of operations called in the run
    over_cap_seen,             \* history: some text buffer exceeded the cap
    consumed,                  \* history: all the text deltas, concatenated
    tcj,                       \* the last try_complete_json: argument, result
    phase,                     \* __init__: "new", "constructing", "ready", "failed"
    agent,                     \* self.agent, the keys the handler reads
    mcp_http_clients,          \* self.mcp_http_clients
    sessions,                  \* the MCP HTTP sessions: open now, opened so far
    task,                      \* the position of the operation in progress
    resolved,                  \* the last get_function: name and outcome
    dispatched                 \* history: every invoke_async_funct dispatch

\* the fields of the handler's tools, and the operations on them
tool_vars == << phase, agent, mcp_http_clients, sessions, task, resolved,
                dispatched >>

vars == << _run, _connection_id, setting, index, accumulated_partial_text,
           complete_accumulated_json, accumulated_partial_json, emitted,
           delivered, call, out, calls, over_cap_seen, consumed, tcj,
           tool_vars >>

----------------------------------------------------------------------------
(* Bounds of the model.                                                    *)

\* operations per run under Spec (text, JSON and binding interleaved)
MaxCalls == 2
\* operations per run under SpecText
MaxTextCalls == 4
\* characters of JSON per run under SpecJson, and calls of the operation
MaxJsonLen == 4
MaxJsonCalls == 5
\* length of the prefixes given to the completer under SpecComplete
MaxPrefixLen == 5
\* a configured threshold smaller than the default
SmallThreshold == 2
MaxSendCalls == 3
MaxToolCalls == 3

----------------------------------------------------------------------------
(* Program constants.                                                      *)

\* len(accumulated_partial_text) > 500
MaxBufferCap == 500
\* self.setting.get("accumulated_partial_text_buffer", "10")
DefaultThreshold == 10

None == {}
Some(x) == {x}
TheValue(o) == CHOOSE x \in o : TRUE

----------------------------------------------------------------------------
(* Python str operations.                                                  *)

\* c in s
Contains(s, c) == \E i \in 1..Len(s) : s[i] = c

\* s.find(c, start), positions counted from 1; 0 when c is not found (-1)
Find(s, c, start) ==
    LET hits == {i \in start..Len(s) : s[i] = c}
    IN  IF hits = {} THEN 0 ELSE CHOOSE i \in hits : \A j \in hits : i <= j

\* s[from-1 : to], positions counted from 1
Slice(s, from, to) == SubSeq(s, from, to)

\* s[from-1 :]
SliceFrom(s, from) == SubSeq(s, from, Len(s))

----------------------------------------------------------------------------
(* json.loads, over the characters of JsonChars: objects, arrays, strings  *)
(* without escapes, integers, and blanks between tokens.  Each Parse       *)
(* operator takes the position of the value's first character and returns  *)
(* the position after the value, or 0 for a JSONDecodeError.               *)

JsonChars == {"{", "}", "[", "]", "\"", ":", ",", "1"}

Whitespace == {" ", "\t", "\n", "\r"}
Digits == {"0", "1", "2", "3", "4", "5", "6", "7", "8", "9"}

\* the first position at or after i that holds no whitespace
SkipWs(s, i) ==
    LET rest == {j \in i..Len(s) : s[j] \notin Whitespace}
    IN  IF rest = {} THEN Len(s) + 1
        ELSE CHOOSE j \in rest : \A k \in rest : j <= k

\* the first position at or after i that holds no digit
SkipDigits(s, i) ==
    LET rest == {j \in i..Len(s) : s[j] \notin Digits}
    IN  IF rest = {} THEN Len(s) + 1
        ELSE CHOOSE j \in rest : \A k \in rest : j <= k

\* s[i] = '"': the string ends at the next '"'
ParseString(s, i) ==
    LET close == Find(s, "\"", i + 1)
    IN  IF close = 0 THEN 0 ELSE close + 1

\* NUMBER_RE, its integer part: -?(0|[1-9][0-9]*)
ParseNumber(s, i) ==
    LET d == IF i <= Len(s) /\ s[i] = "-" THEN i + 1 ELSE i
    IN  IF d > Len(s) \/ s[d] \notin Digits THEN 0
        ELSE IF s[d] = "0" THEN d + 1
        ELSE SkipDigits(s, d)

RECURSIVE ParseValue(_, _)
RECURSIVE ParseArrayItems(_, _)
RECURSIVE ParseObjectMembers(_, _)

\* JSONArray after '[' or ',': a value, then ']' or ',' and the next value
ParseArrayItems(s, i) ==
    LET v == ParseValue(s, i)
        e == SkipWs(s, v)
    IN  IF v = 0 \/ e > Len(s) THEN 0
        ELSE IF s[e] = "]" THEN e + 1
        ELSE IF s[e] = "," THEN ParseArrayItems(s, SkipWs(s, e + 1))
        ELSE 0

\* JSONObject after '{' or ',': "key" : value, then '}' or ',' and the next
ParseObjectMembers(s, i) ==
    IF i > Len(s) \/ s[i] # "\"" THEN 0
    ELSE LET k == ParseString(s, i)
             c == SkipWs(s, k)
             v == ParseValue(s, SkipWs(s, c + 1))
             e == SkipWs(s, v)
         IN  IF k = 0 \/ c > Len(s) THEN 0
             ELSE IF s[c] # ":" THEN 0
             ELSE IF v = 0 \/ e > Len(s) THEN 0
             ELSE IF s[e] = "}" THEN e + 1
             ELSE IF s[e] = "," THEN ParseObjectMembers(s, SkipWs(s, e + 1))
             ELSE 0

\* scan_once
ParseValue(s, i) ==
    IF i > Len(s) THEN 0
    ELSE IF s[i] = "\"" THEN ParseString(s, i)
    ELSE IF s[i] = "{" THEN
        LET m == SkipWs(s, i + 1)
        IN  IF m <= Len(s) /\ s[m] = "}" THEN m + 1
            ELSE ParseObjectMembers(s, m)
    ELSE IF s[i] = "[" THEN
        LET m == SkipWs(s, i + 1)
        IN  IF m <= Len(s) /\ s[m] = "]" THEN m + 1
            ELSE ParseArrayItems(s, m)
    ELSE ParseNumber(s, i)

\* json.loads(s) returns (TRUE) or raises JSONDecodeError (FALSE)
JsonLoads(s) ==
    LET v == ParseValue(s, SkipWs(s, 1))
    IN  v # 0 /\ SkipWs(s, v) = Len(s) + 1

----------------------------------------------------------------------------
(* try_complete_json                                                       *)

possible_endings ==
    << <<"}">>, <<"]">>, <<"}">>, <<"}", "]">>, <<"}", "]", "}">>,
       <<"}", "}">> >>

\* returns the empty ending for a prefix that is valid already
TryCompleteJsonEndingOnly(accumulated) ==
    IF JsonLoads(accumulated) THEN <<>>
    ELSE LET works == {n \in 1..Len(possible_endings) :
                          JsonLoads(accumulated \o possible_endings[n])}
         IN  IF works = {} THEN <<>>
             ELSE possible_endings[CHOOSE n \in works : \A m \in works : n <= m]

TryCompleteJson(accumulated) ==
    IF JsonLoads(accumulated) THEN accumulated
    ELSE LET works == {n \in 1..Len(possible_endings) :
                          JsonLoads(accumulated \o possible_endings[n])}
         IN  IF works = {} THEN <<>>
             ELSE possible_endings[CHOOSE n \in works : \A m \in works : n <= m]

----------------------------------------------------------------------------
(* send_data_to_stream                                                     *)

Chunk(idx, data_format, chunk_delta, is_message_end) ==
    [index |-> idx, data_format |-> data_format,
     chunk_delta |-> chunk_delta, is_message_end |-> is_message_end]

\* f"{self._connection_id}-{self._run['run_uuid']}"
\* names the group after the run alone
MessageGroupIdRunOnly(connection_id, run) == run.run_uuid

\* sends when only one of the two is bound, under the connection "None"
SendDataToStreamEitherBound(chunk) ==
    IF _connection_id = None /\ _run = None THEN <<>>
    ELSE LET connection_id == IF _connection_id = None THEN "None"
                              ELSE TheValue(_connection_id)
             run_uuid == IF _run = None THEN "None"
                         ELSE TheValue(_run).run_uuid
             message_group_id == connection_id \o "-" \o run_uuid
         IN  << [connection_id |-> connection_id,
                 message_group_id |-> message_group_id,
                 data |-> [message_group_id |-> message_group_id,
                           data_format |-> chunk.data_format,
                           index |-> chunk.index,
                           chunk_delta |-> chunk.chunk_delta,
                           is_message_end |-> chunk.is_message_end]] >>

MessageGroupId(connection_id, run) == connection_id \o "-" \o run.run_uuid

\* The envelopes one call hands to Utility.invoke_funct_on_aws_lambda: none
\* when no connection or no run is bound.
SendDataToStream(chunk) ==
    IF _connection_id = None \/ _run = None THEN <<>>
    ELSE LET message_group_id ==
                 MessageGroupId(TheValue(_connection_id), TheValue(_run))
         IN  << [connection_id |-> TheValue(_connection_id),
                 message_group_id |-> message_group_id,
                 data |-> [message_group_id |-> message_group_id,
                           data_format |-> chunk.data_format,
                           index |-> chunk.index,
                           chunk_delta |-> chunk.chunk_delta,
                           is_message_end |-> chunk.is_message_end]] >>

RECURSIVE SendAll(_)
\* the envelopes of a sequence of send_data_to_stream calls, in call order
SendAll(chunks) ==
    IF chunks = <<>> THEN <<>>
    ELSE SendDataToStream(Head(chunks)) \o SendAll(Tail(chunks))

----------------------------------------------------------------------------
(* process_and_send_json                                                   *)

FlushesAlways(ending) == TRUE

\* if ending:
Flushes(ending) == ending # <<>>

NextIndexStale(idx) == idx

\* index += 1
NextIndex(idx) == idx + 1

\* flushes only a pending JSON that holds something
ProcessAndSendJsonSkipsEmpty(idx, complete_json, partial_json, data_format) ==
    LET combined_json == complete_json \o partial_json
        ending == TryCompleteJson(combined_json)
    IN  IF Flushes(ending) /\ partial_json # <<>>
        THEN [index |-> NextIndex(idx),
              complete |-> complete_json \o partial_json,
              partial |-> <<>>,
              sent |-> <<Chunk(idx, data_format, partial_json, FALSE)>>,
              ending |-> ending]
        ELSE [index |-> idx,
              complete |-> complete_json,
              partial |-> partial_json,
              sent |-> <<>>,
              ending |-> ending]

\* resets the pending JSON on every call, flushed or not
ProcessAndSendJsonResets(idx, complete_json, partial_json, data_format) ==
    LET combined_json == complete_json \o partial_json
        ending == TryCompleteJson(combined_json)
    IN  IF Flushes(ending)
        THEN [index |-> NextIndex(idx),
              complete |-> complete_json \o partial_json,
              partial |-> <<>>,
              sent |-> <<Chunk(idx, data_format, partial_json, FALSE)>>,
              ending |-> ending]
        ELSE [index |-> idx,
              complete |-> complete_json,
              partial |-> <<>>,
              sent |-> <<>>,
              ending |-> ending]

\* The result of one call: the returned triple, the chunks it sent and what
\* try_complete_json returned to it.
ProcessAndSendJson(idx, complete_json, partial_json, data_format) ==
    LET combined_json == complete_json \o partial_json
        ending == TryCompleteJson(combined_json)
    IN  IF Flushes(ending)
        THEN [index |-> NextIndex(idx),
              complete |-> complete_json \o partial_json,
              partial |-> <<>>,
              sent |-> <<Chunk(idx, data_format, partial_json, FALSE)>>,
              ending |-> ending]
        ELSE [index |-> idx,
              complete |-> complete_json,
              partial |-> partial_json,
              sent |-> <<>>,
              ending |-> ending]

----------------------------------------------------------------------------
(* process_text_content                                                    *)

\* a default of "0" in place of "10"
ThresholdDefaultZero ==
    IF setting.accumulated_partial_text_buffer = None THEN 0
    ELSE TheValue(setting.accumulated_partial_text_buffer)

\* int(self.setting.get("accumulated_partial_text_buffer", "10"))
Threshold ==
    IF setting.accumulated_partial_text_buffer = None THEN DefaultThreshold
    ELSE TheValue(setting.accumulated_partial_text_buffer)

\* lets one more character through before the fallback
OverCapLate(text) == Len(text) > MaxBufferCap + 1

OverCapAtCap(text) == Len(text) >= MaxBufferCap

\* len(accumulated_partial_text) > 500
OverCap(text) == Len(text) > MaxBufferCap

ReachesThresholdStrict(text) == Len(text) > Threshold

\* len(accumulated_partial_text) >= threshold
ReachesThreshold(text) == Len(text) >= Threshold

\* leaves out the text in front of the first tag, and does not split
XmlPartsFromFirstTag(current_text) ==
    IF ~Contains(current_text, "<")
    THEN IF current_text # <<>> THEN <<current_text>> ELSE <<>>
    ELSE <<SliceFrom(current_text, Find(current_text, "<", 1))>>

RECURSIVE XmlParts(_)
\* the while loop that fills xml_parts, and the trailing text after it
XmlParts(current_text) ==
    IF ~Contains(current_text, "<")
    THEN IF current_text # <<>> THEN <<current_text>> ELSE <<>>
    ELSE LET start_idx == Find(current_text, "<", 1)
             before == IF start_idx > 1
                       THEN <<Slice(current_text, 1, start_idx - 1)>>
                       ELSE <<>>
             end_idx == Find(current_text, ">", start_idx)
         IN  IF end_idx = 0
             THEN before \o <<SliceFrom(current_text, start_idx)>>
             ELSE before \o <<Slice(current_text, start_idx, end_idx)>>
                         \o XmlParts(SliceFrom(current_text, end_idx + 1))

\* tags a part that only opens a tag as markup
PartFormatOpenOnly(part, output_format) ==
    IF Contains(part, "<") THEN output_format ELSE "text"

\* output_format if "<" in part and ">" in part else "text"
PartFormat(part, output_format) ==
    IF Contains(part, "<") /\ Contains(part, ">") THEN output_format
    ELSE "text"

\* for part in xml_parts: send_data_to_stream(index, ...); index += 1
SendParts(xml_parts, idx, output_format) ==
    [n \in 1..Len(xml_parts) |->
        Chunk(idx + n - 1, PartFormat(xml_parts[n], output_format),
              xml_parts[n], FALSE)]

\* The result of one call: the returned pair and the chunks it sent.
ProcessTextContent(idx, text, output_format) ==
    IF Contains(text, "<")
    THEN IF Contains(text, ">") \/ OverCap(text)
         THEN IF ~Contains(text, ">") /\ OverCap(text)
              THEN [index |-> NextIndex(idx), text |-> <<>>,
                    sent |-> <<Chunk(idx, "text", text, FALSE)>>]
              ELSE LET xml_parts == XmlParts(text)
                   IN  [index |-> idx + Len(xml_parts), text |-> <<>>,
                        sent |-> SendParts(xml_parts, idx, "xml")]
         ELSE [index |-> idx, text |-> text, sent |-> <<>>]
    ELSE IF ReachesThreshold(text)
         THEN [index |-> NextIndex(idx), text |-> <<>>,
               sent |-> <<Chunk(idx, output_format, text, FALSE)>>]
         ELSE [index |-> idx, text |-> text, sent |-> <<>>]

----------------------------------------------------------------------------
(* invoke_async_funct                                                      *)

\* keeps the caller's value of a key the run also sets
UpdateParamsCallerWins(params, run) ==
    LET added == [thread_uuid |-> run.thread.thread_uuid,
                  run_uuid |-> run.run_uuid,
                  updated_by |-> run.updated_by]
    IN  [k \in DOMAIN params \cup DOMAIN added |->
            IF k \in DOMAIN params THEN params[k] ELSE added[k]]

\* params.update({"thread_uuid": ..., "run_uuid": ..., "updated_by": ...})
UpdateParams(params, run) ==
    LET added == [thread_uuid |-> run.thread.thread_uuid,
                  run_uuid |-> run.run_uuid,
                  updated_by |-> run.updated_by]
    IN  [k \in DOMAIN params \cup DOMAIN added |->
            IF k \in DOMAIN added THEN added[k] ELSE params[k]]

\* The invocations one call hands to Utility.invoke_funct_on_aws_lambda: none
\* when no run is bound.
InvokeAsyncFunct(function_name, params) ==
    IF _run = None THEN <<>>
    ELSE << [function_name |-> function_name,
             params |-> UpdateParams(params, TheValue(_run)),
             invocation_type |-> "Event",
             message_group_id |-> TheValue(_run).run_uuid] >>

----------------------------------------------------------------------------
(* __init__ with _initialize_mcp_http_clients, the MCP HTTP sessions, and  *)
(* get_function                                                            *)

\* the model families __init__ knows
ExportingLlms == {"gemini", "claude"}
NativeLlm == "openai"

\* refuses a family it does not know whether or not MCP servers are given
McpSetupFamilyFirst(a) ==
    IF a.llm_name \in ExportingLlms
    THEN IF a.mcp_servers = None THEN "none" ELSE "export"
    ELSE IF a.llm_name = NativeLlm
         THEN IF a.mcp_servers = None THEN "none" ELSE "reference"
         ELSE "unsupported"

\* the branch __init__ takes for an agent: no MCP servers given, tools
\* exported per server, servers referenced in the configuration, or refused
McpSetup(a) ==
    IF a.mcp_servers = None THEN "none"
    ELSE IF a.llm_name \in ExportingLlms THEN "export"
    ELSE IF a.llm_name = NativeLlm THEN "reference"
    ELSE "unsupported"

\* what list_tools returns for a server: the names of its tools
ListTools(server_name) ==
    IF server_name = "mcp-1" THEN <<"foo">> ELSE <<"qux", "foo">>

\* mcp_http_client.export_tools_for_llm(llm_name, tools)
ExportToolsForLlm(llm_name, tools) ==
    [n \in 1..Len(tools) |-> [type |-> "function", llm |-> llm_name,
                              name |-> tools[n]]]

\* the tools entry __init__ builds for a server, for openai
ServerReference(mcp_server) ==
    [type |-> "mcp", server_label |-> mcp_server.name,
     server_url |-> mcp_server.setting.base_url,
     headers |-> mcp_server.setting.headers,
     require_approval |-> "never"]

\* self.agent["configuration"]["tools"].extend(tools), or = tools
ExtendTools(a, tools) ==
    [a EXCEPT !.tools = IF a.tools = None THEN Some(tools)
                        ELSE Some(TheValue(a.tools) \o tools)]

Idle == [op |-> "none", pc |-> "idle", server |-> 0, outcome |-> "none"]

NoResolve ==
    [name |-> "", outcome |-> "none", client |-> 0, module_cache |-> <<>>,
     logged |-> FALSE, result |-> "none"]

\* releases the session only when the remote call returned
ReleasesOnReturnOnly(outcome) == outcome = "returned"

\* async with mcp_http_client as client: the session is released on the way
\* out of the block, whether the block returned or raised
ReleasesOnExit(outcome) == outcome \in {"returned", "raised"}

\* asks the module cache before it looks at the MCP tools
GetFunctionAsksCache(function_name) ==
    LET hits == {n \in 1..Len(mcp_http_clients) :
                    \E t \in 1..Len(mcp_http_clients[n].tools) :
                        mcp_http_clients[n].tools[t] = function_name}
    IN  IF hits # {}
        THEN [name |-> function_name, outcome |-> "handle",
              client |-> CHOOSE n \in hits : \A m \in hits : n <= m,
              module_cache |-> <<"exists">>, logged |-> FALSE,
              result |-> "none"]
        ELSE [name |-> function_name, outcome |-> "raised", client |-> 0,
              module_cache |-> <<"exists">>, logged |-> TRUE,
              result |-> "none"]

\* The outcome of get_function: a handle on the first client whose tools
\* hold the name, or the exception raised, after logging it.  module_cache
\* lists the module-cache operations performed on the way.
GetFunction(function_name) ==
    LET hits == {n \in 1..Len(mcp_http_clients) :
                    \E t \in 1..Len(mcp_http_clients[n].tools) :
                        mcp_http_clients[n].tools[t] = function_name}
    IN  IF hits # {}
        THEN [name |-> function_name, outcome |-> "handle",
              client |-> CHOOSE n \in hits : \A m \in hits : n <= m,
              module_cache |-> <<>>, logged |-> FALSE, result |-> "none"]
        ELSE [name |-> function_name, outcome |-> "raised", client |-> 0,
              module_cache |-> <<>>, logged |-> TRUE, result |-> "none"]

----------------------------------------------------------------------------
(* The inputs of a run.                                                    *)

Runs ==
    {[run_uuid |-> "run-1", thread |-> [thread_uuid |-> "thread-1"],
      updated_by |-> "user-1"]}

ConnectionIds == {"conn-1"}

\* a long run of plain characters: one short of the cap
Pad == [n \in 1..(MaxBufferCap - 1) |-> "a"]

\* the text the model streams in one delta
TextInputs ==
    {<<>>, <<"a">>, <<"<">>, <<">">>, <<">", "a", "<">>, Pad}

\* the output_format the run loop passes to process_text_content
OutputFormats == {"text", "xml"}

\* the JSON the model streams in one delta: nothing, or one character
JsonInputs == {<<>>} \cup {<<c>> : c \in JsonChars}

\* the data_format the run loop passes to process_and_send_json
JsonFormats == {"json_object"}

\* every str over JsonChars of at most n characters
JsonStrings(n) == UNION {[1..k -> JsonChars] : k \in 0..n}

NoCall ==
    [op |-> "none", index |-> 0, complete |-> <<>>, pending |-> <<>>,
     delta |-> <<>>, format |-> ""]

\* the chunks the run loop sends itself: a delta, or the end of the message
SendInputs ==
    {Chunk(0, "text", d, e) : d \in {<<>>, <<"a">>}, e \in BOOLEAN}

\* the params of an invoke_async_funct call
AsyncParams ==
    {[k \in {} |-> ""], [message |-> "m"],
     [message |-> "m", run_uuid |-> "run-0", updated_by |-> "caller"]}

AsyncFunctions == {"async_insert_update_tool_call"}

\* the MCP servers an agent may configure
McpServer(name) ==
    [name |-> name,
     setting |-> [base_url |-> "https://" \o name, headers |-> "h-" \o name]]

\* the names of the agent's local function registry
LocalFunctions == {"bar"}

\* the agents a handler is constructed for: the model family, the
\* mcp_servers entry (absent, empty, one or two servers), the tools of the
\* configuration (absent or present), and the local function registry
Agents ==
    {[llm_name |-> l, mcp_servers |-> m, tools |-> t, functions |-> LocalFunctions] :
        l \in ExportingLlms \cup {NativeLlm, "llama"},
        m \in {None, Some(<<>>), Some(<<McpServer("mcp-1")>>),
               Some(<<McpServer("mcp-1"), McpServer("mcp-2")>>)},
        t \in {None, Some(<<[type |-> "builtin"]>>)}}

\* the function names get_function is asked for: a remote tool, a function
\* of the local registry, and a name no registry holds
FunctionNames == {"foo", "bar", "baz"}

\* a handler constructed for an agent without MCP servers
ToolsReady ==
    /\ phase = "ready"
    /\ agent = [llm_name |-> NativeLlm, mcp_servers |-> None, tools |-> None,
                functions |-> LocalFunctions]
    /\ mcp_http_clients = <<>>
    /\ sessions = [open |-> 0, opened |-> 0]
    /\ task = Idle
    /\ resolved = NoResolve
    /\ dispatched = <<>>

----------------------------------------------------------------------------
(* The state after __init__, and the operations.                           *)

Init ==
    /\ _run = None
    /\ _connection_id = None
    /\ setting \in {[accumulated_partial_text_buffer |-> t] :
                       t \in {None, Some(SmallThreshold)}}
    /\ index = 0
    /\ accumulated_partial_text = <<>>
    /\ complete_accumulated_json = <<>>
    /\ accumulated_partial_json = <<>>
    /\ emitted = <<>>
    /\ delivered = <<>>
    /\ call = NoCall
    /\ out = <<>>
    /\ calls = 0
    /\ over_cap_seen = FALSE
    /\ consumed = <<>>
    /\ ToolsReady
    /\ tcj = [arg |-> <<>>, ret |-> <<>>, done |-> FALSE]

\* run.setter
SetRun(value) ==
    /\ _run' = value
    /\ UNCHANGED << _connection_id, setting, index, accumulated_partial_text,
                    complete_accumulated_json, accumulated_partial_json,
                    emitted, delivered, call, out, calls, over_cap_seen,
                    consumed, tcj, tool_vars >>

\* connection_id.setter
SetConnectionId(value) ==
    /\ _connection_id' = value
    /\ UNCHANGED << _run, setting, index, accumulated_partial_text,
                    complete_accumulated_json, accumulated_partial_json,
                    emitted, delivered, call, out, calls, over_cap_seen,
                    consumed, tcj, tool_vars >>

\* The run loop appends the delta to its text buffer and calls
\* process_text_content with its index, the buffer and its output format.
CallProcessTextContent(delta, output_format) ==
    LET text == accumulated_partial_text \o delta
        r == ProcessTextContent(index, text, output_format)
    IN  /\ index' = r.index
        /\ accumulated_partial_text' = r.text
        /\ emitted' = emitted \o r.sent
        /\ delivered' = delivered \o SendAll(r.sent)
        /\ out' = r.sent
        /\ call' = [op |-> "text", index |-> index, complete |-> <<>>,
                    pending |-> text, delta |-> delta,
                    format |-> output_format]
        /\ calls' = calls + 1
        /\ over_cap_seen' = (over_cap_seen \/ OverCap(text))
        /\ consumed' = consumed \o delta
        /\ UNCHANGED << _run, _connection_id, setting,
                        complete_accumulated_json, accumulated_partial_json,
                        tcj, tool_vars >>

\* The run loop appends the delta to its pending JSON and calls
\* process_and_send_json with its index, both buffers and its data format.
CallProcessAndSendJson(delta, data_format) ==
    LET partial == accumulated_partial_json \o delta
        r == ProcessAndSendJson(index, complete_accumulated_json, partial,
                                data_format)
    IN  /\ index' = r.index
        /\ complete_accumulated_json' = r.complete
        /\ accumulated_partial_json' = r.partial
        /\ emitted' = emitted \o r.sent
        /\ delivered' = delivered \o SendAll(r.sent)
        /\ out' = r.sent
        /\ call' = [op |-> "json", index |-> index,
                    complete |-> complete_accumulated_json,
                    pending |-> partial, delta |-> delta,
                    format |-> data_format]
        /\ calls' = calls + 1
        /\ tcj' = [arg |-> complete_accumulated_json \o partial,
                   ret |-> r.ending,
                   done |-> TRUE]
        /\ UNCHANGED << _run, _connection_id, setting,
                        accumulated_partial_text, over_cap_seen, consumed,
                        tool_vars >>

\* try_complete_json on its own, applied to the prefix the state holds
CallTryCompleteJson ==
    /\ ~tcj.done
    /\ tcj' = [arg |-> tcj.arg, ret |-> TryCompleteJson(tcj.arg),
               done |-> TRUE]
    /\ UNCHANGED << _run, _connection_id, setting, index,
                    accumulated_partial_text, complete_accumulated_json,
                    accumulated_partial_json, emitted, delivered, call, out,
                    calls, over_cap_seen, consumed, tool_vars >>

\* send_data_to_stream called by the run loop itself
CallSendDataToStream(chunk) ==
    /\ emitted' = Append(emitted, chunk)
    /\ delivered' = delivered \o SendDataToStream(chunk)
    /\ out' = <<chunk>>
    /\ call' = [op |-> "send", index |-> chunk.index, complete |-> <<>>,
                pending |-> chunk.chunk_delta, delta |-> <<>>,
                format |-> chunk.data_format]
    /\ calls' = calls + 1
    /\ UNCHANGED << _run, _connection_id, setting, index,
                    accumulated_partial_text, complete_accumulated_json,
                    accumulated_partial_json, over_cap_seen, consumed, tcj,
                    tool_vars >>

\* invoke_async_funct(function_name, **params); call.pending keeps the
\* params the caller gave
CallInvokeAsyncFunct(function_name, params) ==
    /\ dispatched' = dispatched \o InvokeAsyncFunct(function_name, params)
    /\ out' = <<>>
    /\ call' = [op |-> "invoke_async", index |-> index, complete |-> <<>>,
                pending |-> params, delta |-> <<>>,
                format |-> function_name]
    /\ calls' = calls + 1
    /\ UNCHANGED << _run, _connection_id, setting, index,
                    accumulated_partial_text, complete_accumulated_json,
                    accumulated_partial_json, emitted, delivered,
                    over_cap_seen, consumed, tcj, phase, agent,
                    mcp_http_clients, sessions, task, resolved >>

\* the streaming fields, which the MCP operations leave alone
stream_vars == << _run, _connection_id, setting, index,
                  accumulated_partial_text, complete_accumulated_json,
                  accumulated_partial_json, emitted, delivered, call, out,
                  over_cap_seen, consumed, tcj, dispatched >>

\* __init__ up to its first list_tools, or to its end when it lists nothing
Construct ==
    /\ phase = "new"
    /\ LET setup == McpSetup(agent)
       IN  /\ phase' =
                  IF setup = "unsupported" THEN "unsupported_llm"
                  ELSE IF setup = "export" /\ TheValue(agent.mcp_servers) # <<>>
                       THEN "constructing"
                       ELSE "ready"
           /\ agent' =
                  IF setup = "reference"
                  THEN ExtendTools(agent,
                           [n \in 1..Len(TheValue(agent.mcp_servers)) |->
                               ServerReference(TheValue(agent.mcp_servers)[n])])
                  ELSE agent
           /\ task' =
                  IF setup = "export" /\ TheValue(agent.mcp_servers) # <<>>
                  THEN [op |-> "list", pc |-> "enter", server |-> 1,
                        outcome |-> "none"]
                  ELSE Idle
    /\ UNCHANGED << stream_vars, calls, mcp_http_clients, sessions,
                    resolved >>

\* async with mcp_http_client as client: the session opens
SessionEnter ==
    /\ task.pc = "enter"
    /\ sessions' = [open |-> sessions.open + 1,
                    opened |-> sessions.opened + 1]
    /\ task' = [task EXCEPT !.pc = "in_session"]
    /\ UNCHANGED << stream_vars, calls, phase, agent, mcp_http_clients,
                    resolved >>

\* async with mcp_http_client as client: opening the session raises
SessionEnterRaises ==
    /\ task.pc = "enter"
    /\ task' = [task EXCEPT !.pc = "exit", !.outcome = "enter_raised"]
    /\ UNCHANGED << stream_vars, calls, phase, agent, mcp_http_clients,
                    sessions, resolved >>

\* await client.list_tools() or client.call_tool(...) returns, or raises
RemoteCompletes(outcome) ==
    /\ task.pc = "in_session"
    /\ task' = [task EXCEPT !.pc = "exit", !.outcome = outcome]
    /\ UNCHANGED << stream_vars, calls, phase, agent, mcp_http_clients,
                    sessions, resolved >>

\* The way out of the async with block and of asyncio.run: the session is
\* released, and control is back in _initialize_mcp_http_clients, which
\* registers the client and goes on to the next server, or in the caller of
\* the handle.  An exception during construction ends __init__.
OperationReturns ==
    /\ task.pc = "exit"
    /\ sessions' = [sessions EXCEPT
                       !.open = IF ReleasesOnExit(task.outcome)
                                THEN sessions.open - 1 ELSE sessions.open]
    /\ IF task.op = "list"
       THEN LET mcp_servers == TheValue(agent.mcp_servers)
                mcp_server == mcp_servers[task.server]
                tools == ListTools(mcp_server.name)
            IN  IF task.outcome = "returned"
                THEN /\ agent' = ExtendTools(agent,
                                     ExportToolsForLlm(agent.llm_name, tools))
                     /\ mcp_http_clients' =
                            Append(mcp_http_clients,
                                   [name |-> mcp_server.name, tools |-> tools])
                     /\ IF task.server < Len(mcp_servers)
                        THEN /\ task' = [op |-> "list", pc |-> "enter",
                                         server |-> task.server + 1,
                                         outcome |-> "none"]
                             /\ phase' = phase
                        ELSE /\ task' = Idle
                             /\ phase' = "ready"
                     /\ UNCHANGED resolved
                ELSE /\ phase' = "list_failed"
                     /\ task' = Idle
                     /\ UNCHANGED << agent, mcp_http_clients, resolved >>
       ELSE /\ resolved' = [resolved EXCEPT
                               !.result = IF task.outcome = "returned"
                                          THEN "returned" ELSE "raised"]
            /\ task' = Idle
            /\ UNCHANGED << phase, agent, mcp_http_clients >>
    /\ UNCHANGED << stream_vars, calls >>

\* get_function(function_name)
CallGetFunction(function_name) ==
    /\ phase = "ready"
    /\ task = Idle
    /\ resolved' = GetFunction(function_name)
    /\ calls' = calls + 1
    /\ UNCHANGED << stream_vars, phase, agent, mcp_http_clients, sessions,
                    task >>

\* the caller invokes the handle get_function returned
InvokeHandle ==
    /\ phase = "ready"
    /\ task = Idle
    /\ resolved.outcome = "handle"
    /\ task' = [op |-> "call", pc |-> "enter", server |-> resolved.client,
                outcome |-> "none"]
    /\ resolved' = [resolved EXCEPT !.result = "none"]
    /\ calls' = calls + 1
    /\ UNCHANGED << stream_vars, phase, agent, mcp_http_clients, sessions >>

----------------------------------------------------------------------------
(* Specifications.                                                         *)

\* one run: bindings, text and JSON in any interleaving
Next ==
    \/ \E value \in {None} \cup {Some(r) : r \in Runs} : SetRun(value)
    \/ \E value \in {None} \cup {Some(c) : c \in ConnectionIds} :
           SetConnectionId(value)
    \/ /\ calls < MaxCalls
       /\ \E delta \in TextInputs, output_format \in OutputFormats :
              CallProcessTextContent(delta, output_format)
    \/ /\ calls < MaxCalls
       /\ \E delta \in JsonInputs, data_format \in JsonFormats :
              CallProcessAndSendJson(delta, data_format)

Spec == Init /\ [][Next]_vars

\* one run of the text classifier
NextText ==
    /\ calls < MaxTextCalls
    /\ \E delta \in TextInputs, output_format \in OutputFormats :
           CallProcessTextContent(delta, output_format)

SpecText == Init /\ [][NextText]_vars

\* one run of the JSON assembly
NextJson ==
    /\ calls < MaxJsonCalls
    /\ \E delta \in JsonInputs, data_format \in JsonFormats :
           /\ Len(complete_accumulated_json) + Len(accumulated_partial_json)
                  + Len(delta) <= MaxJsonLen
           /\ CallProcessAndSendJson(delta, data_format)

InitJson == Init /\ setting.accumulated_partial_text_buffer = None

SpecJson == InitJson /\ [][NextJson]_vars

\* bindings changing between sends and asynchronous invocations
NextSend ==
    \/ \E value \in {None} \cup {Some(r) : r \in Runs} : SetRun(value)
    \/ \E value \in {None} \cup {Some(c) : c \in ConnectionIds} :
           SetConnectionId(value)
    \/ /\ calls < MaxSendCalls
       /\ \E chunk \in SendInputs : CallSendDataToStream(chunk)
    \/ /\ calls < MaxSendCalls
       /\ \E function_name \in AsyncFunctions, params \in AsyncParams :
              CallInvokeAsyncFunct(function_name, params)

SpecSend == InitJson /\ [][NextSend]_vars

\* construction for any agent, then resolutions and remote calls
InitTools ==
    /\ _run = None
    /\ _connection_id = None
    /\ setting = [accumulated_partial_text_buffer |-> None]
    /\ index = 0
    /\ accumulated_partial_text = <<>>
    /\ complete_accumulated_json = <<>>
    /\ accumulated_partial_json = <<>>
    /\ emitted = <<>>
    /\ delivered = <<>>
    /\ call = NoCall
    /\ out = <<>>
    /\ calls = 0
    /\ over_cap_seen = FALSE
    /\ consumed = <<>>
    /\ tcj = [arg |-> <<>>, ret |-> <<>>, done |-> FALSE]
    /\ phase = "new"
    /\ agent \in Agents
    /\ mcp_http_clients = <<>>
    /\ sessions = [open |-> 0, opened |-> 0]
    /\ task = Idle
    /\ resolved = NoResolve
    /\ dispatched = <<>>

NextTools ==
    \/ Construct
    \/ SessionEnter
    \/ SessionEnterRaises
    \/ \E outcome \in {"returned", "raised"} : RemoteCompletes(outcome)
    \/ OperationReturns
    \/ /\ calls < MaxToolCalls
       /\ \E function_name \in FunctionNames : CallGetFunction(function_name)
    \/ /\ calls < MaxToolCalls
       /\ InvokeHandle

SpecTools == InitTools /\ [][NextTools]_vars

\* the completer applied to every prefix of at most MaxPrefixLen characters
InitComplete ==
    /\ _run = None
    /\ _connection_id = None
    /\ setting = [accumulated_partial_text_buffer |-> None]
    /\ index = 0
    /\ accumulated_partial_text = <<>>
    /\ complete_accumulated_json = <<>>
    /\ accumulated_partial_json = <<>>
    /\ emitted = <<>>
    /\ delivered = <<>>
    /\ call = NoCall
    /\ out = <<>>
    /\ calls = 0
    /\ over_cap_seen = FALSE
    /\ consumed = <<>>
    /\ ToolsReady
    /\ tcj \in {[arg |-> p, ret |-> <<>>, done |-> FALSE] :
                   p \in JsonStrings(MaxPrefixLen)}

NextComplete == CallTryCompleteJson

SpecComplete == InitComplete /\ [][NextComplete]_vars

----------------------------------------------------------------------------
(* Properties.                                                             *)

\* the text or JSON the last operation was given to process
Given == call.complete \o call.pending

\* s parses as it is, or after one of the candidate endings
Completable(s) ==
    \/ JsonLoads(s)
    \/ \E n \in 1..Len(possible_endings) : JsonLoads(s \o possible_endings[n])

RECURSIVE ConcatDeltas(_)
\* the contents of a sequence of chunks, concatenated in order
ConcatDeltas(chunks) ==
    IF chunks = <<>> THEN <<>>
    ELSE Head(chunks).chunk_delta \o ConcatDeltas(Tail(chunks))

\* every '<' of the content is followed by a '>' of the same content
TagsClosed(content) ==
    \A i \in 1..Len(content) :
        content[i] = "<" => \E j \in (i + 1)..Len(content) : content[j] = ">"

\* the content starts with '<' and ends with '>'
WholeTag(content) ==
    /\ content # <<>>
    /\ content[1] = "<"
    /\ content[Len(content)] = ">"

\* C1: in a run of text and JSON calls with the index threaded from 0, the
\* chunks sent carry the indices 0, 1, 2, ... in the order they are sent, and
\* the index each call returns is the number of chunks sent so far.
C1_IndicesCountEmitted ==
    /\ \A n \in 1..Len(emitted) : emitted[n].index = n - 1
    /\ index = Len(emitted)

\* a text call that sent several chunks, followed by a JSON call that sent one
C1_Witness ==
    /\ Len(emitted) >= 3
    /\ call.op = "json"
    /\ Len(out) = 1
    /\ emitted[1].data_format = "text"

\* C2: while no buffer exceeds the cap, no chunk sent holds a '<' that no
\* '>' follows inside the same chunk.
C2_NoChunkSplitsTag ==
    ~over_cap_seen =>
        \A n \in 1..Len(emitted) : TagsClosed(emitted[n].chunk_delta)

\* C3, as stated: every chunk sent in the markup format starts with '<' and
\* ends with '>', and every other chunk is sent as plain text.
C3_EveryXmlChunkIsTag ==
    \A n \in 1..Len(emitted) :
        /\ emitted[n].data_format \in {"xml", "text"}
        /\ emitted[n].data_format = "xml" => WholeTag(emitted[n].chunk_delta)

\* C3, amended: when the buffer processed holds a '<', every chunk sent in
\* the markup format starts with '<' and ends with '>', and every other part
\* is sent as plain text.  (A buffer without '<' flushed at the threshold
\* carries the caller's output format, whatever its content.)
C3_SplitXmlChunkIsTag ==
    call.op = "text" /\ Contains(call.pending, "<") =>
        \A n \in 1..Len(out) :
            /\ out[n].data_format \in {"xml", "text"}
            /\ out[n].data_format = "xml" => WholeTag(out[n].chunk_delta)

\* a split that sent a tag, the text after it and a tag left open
C3_Witness ==
    /\ call.op = "text"
    /\ Len(out) = 3
    /\ out[1].data_format = "xml"
    /\ out[2].data_format = "text"
    /\ Contains(out[3].chunk_delta, "<")

\* C4: whenever try_complete_json(p) returns a non-empty s, p + s parses as
\* JSON, also when p is valid JSON already.
C4_CompletionParses ==
    tcj.done /\ tcj.ret # <<>> => JsonLoads(tcj.arg \o tcj.ret)

\* C5: the JSON chunks flushed so far, concatenated, are complete_so_far,
\* and complete_so_far is empty, or parses, or parses after one of the
\* candidate endings.
C5_FlushedJsonCompletable ==
    /\ ConcatDeltas(emitted) = complete_accumulated_json
    /\ complete_accumulated_json = <<>> \/ Completable(complete_accumulated_json)

\* two chunks flushed, and what is flushed parses only after an ending
C5_Witness ==
    /\ Len(emitted) >= 2
    /\ emitted[2].chunk_delta # <<>>
    /\ ~JsonLoads(complete_accumulated_json)
    /\ complete_accumulated_json = Given

\* C6: process_and_send_json flushes exactly when complete_so_far +
\* partial_pending parses as it is or after a candidate ending; it then
\* sends one chunk at the given index, in the given format, holding
\* partial_pending, not the end of the message, and returns index + 1,
\* complete_so_far + partial_pending and an empty partial_pending.
C6_FlushWhenCompletable ==
    call.op = "json" =>
        /\ out # <<>> <=> Completable(Given)
        /\ out # <<>> =>
            /\ out = <<Chunk(call.index, call.format, call.pending, FALSE)>>
            /\ index = call.index + 1
            /\ complete_accumulated_json = Given
            /\ accumulated_partial_json = <<>>

\* a flush that needed an ending, then a flush of JSON that is valid as it is
C6_Witness ==
    /\ call.op = "json"
    /\ call.complete # <<>>
    /\ ~JsonLoads(call.complete)
    /\ call.pending # <<>>
    /\ JsonLoads(Given)
    /\ Len(out) = 1

\* C7: when complete_so_far + partial_pending has no completion,
\* process_and_send_json sends nothing and returns the index and both
\* buffers as they were given, however often it is called.
C7_NoCompletionNoChange ==
    call.op = "json" /\ ~Completable(Given) =>
        /\ out = <<>>
        /\ index = call.index
        /\ complete_accumulated_json = call.complete
        /\ accumulated_partial_json = call.pending

\* pending JSON without a completion, called a third time with nothing new
C7_Witness ==
    /\ call.op = "json"
    /\ calls >= 3
    /\ call.delta = <<>>
    /\ call.pending # <<>>
    /\ ~Completable(Given)
    /\ emitted = <<>>

C9_ThresholdFlushIsText ==
    call.op = "text" /\ ~Contains(call.pending, "<") =>
        IF Len(call.pending) >= Threshold
        THEN /\ out = <<Chunk(call.index, "text", call.pending, FALSE)>>
             /\ accumulated_partial_text = <<>>
             /\ index = call.index + 1
        ELSE /\ out = <<>>
             /\ accumulated_partial_text = call.pending
             /\ index = call.index

\* C9, amended: the chunk carries the output format the caller passed,
\* which is plain text when the caller passes "text".
C9_ThresholdFlushInCallerFormat ==
    call.op = "text" /\ ~Contains(call.pending, "<") =>
        IF Len(call.pending) >= Threshold
        THEN /\ out = <<Chunk(call.index, call.format, call.pending, FALSE)>>
             /\ accumulated_partial_text = <<>>
             /\ index = call.index + 1
        ELSE /\ out = <<>>
             /\ accumulated_partial_text = call.pending
             /\ index = call.index

\* a buffer of exactly the threshold, grown over two calls and flushed
C9_Witness ==
    /\ call.op = "text"
    /\ ~Contains(call.pending, "<")
    /\ Len(call.pending) = Threshold
    /\ Len(call.delta) < Len(call.pending)
    /\ Len(out) = 1

\* C10: a buffer with a '<' and no '>' is sent whole as one plain-text chunk
\* and cleared when it is longer than the cap, and is kept, with nothing
\* sent, when it is not.
C10_CapFallback ==
    call.op = "text" /\ Contains(call.pending, "<")
                     /\ ~Contains(call.pending, ">") =>
        IF Len(call.pending) > MaxBufferCap
        THEN /\ out = <<Chunk(call.index, "text", call.pending, FALSE)>>
             /\ accumulated_partial_text = <<>>
             /\ index = call.index + 1
        ELSE /\ out = <<>>
             /\ accumulated_partial_text = call.pending
             /\ index = call.index

\* an open tag kept at exactly the cap, then sent whole one character later
C10_Witness ==
    /\ call.op = "text"
    /\ Contains(call.pending, "<")
    /\ ~Contains(call.pending, ">")
    /\ Len(call.pending) = MaxBufferCap + 1
    /\ Len(call.delta) = 1
    /\ call.format = "xml"
    /\ out = <<Chunk(call.index, "text", call.pending, FALSE)>>

\* C18: in a run of the text classifier, the contents of the chunks sent, in
\* the order of their indices, followed by the retained buffer, are the text
\* consumed so far: nothing is dropped, duplicated or reordered.
C18_ContentConserved ==
    ConcatDeltas(emitted) \o accumulated_partial_text = consumed

\* a split into several parts and a later threshold flush, with text retained
C18_Witness ==
    /\ \E n \in 1..Len(emitted) :
           emitted[n].data_format = "xml" /\ WholeTag(emitted[n].chunk_delta)
    /\ Len(emitted) >= 3
    /\ call.op = "text"
    /\ ~Contains(call.pending, "<")
    /\ Len(out) = 1
    /\ over_cap_seen = FALSE

C20_EmptyPendingSendsNothing ==
    /\ \A n \in 1..Len(emitted) : emitted[n].chunk_delta # <<>>
    /\ call.op = "json" /\ call.pending = <<>> =>
           /\ out = <<>>
           /\ index = call.index
           /\ complete_accumulated_json = call.complete
           /\ accumulated_partial_json = <<>>

\* C20, amended: a call whose pending JSON is empty sends nothing and
\* returns the triple it was given when nothing has been flushed yet; once
\* something has been flushed it sends one chunk with empty content and
\* returns the index advanced by one, the flushed JSON unchanged and an empty
\* pending JSON.
C20_EmptyPendingAfterFlushSendsEmpty ==
    call.op = "json" /\ call.pending = <<>> =>
        /\ complete_accumulated_json = call.complete
        /\ accumulated_partial_json = <<>>
        /\ IF call.complete = <<>>
           THEN out = <<>> /\ index = call.index
           ELSE /\ out = <<Chunk(call.index, call.format, <<>>, FALSE)>>
                /\ index = call.index + 1

\* a call with nothing pending, after a flush
C20_Witness ==
    /\ call.op = "json"
    /\ call.pending = <<>>
    /\ call.complete # <<>>
    /\ call.index >= 1
    /\ Len(out) = 1

\* the envelope send_data_to_stream hands over for a chunk under the bindings
\* of the state
EnvelopeOf(chunk) ==
    LET group == TheValue(_connection_id) \o "-" \o TheValue(_run).run_uuid
    IN  [connection_id |-> TheValue(_connection_id),
         message_group_id |-> group,
         data |-> [message_group_id |-> group,
                   data_format |-> chunk.data_format,
                   index |-> chunk.index,
                   chunk_delta |-> chunk.chunk_delta,
                   is_message_end |-> chunk.is_message_end]]

\* C11: in any interleaving of binding changes and sends, a call of
\* send_data_to_stream hands exactly one envelope to the delivery interface
\* when a run and a connection id are both bound, and none otherwise; it
\* raises nothing and changes no field of the handler either way.
C11_DeliversIffBothBound ==
    [][calls' = calls + 1 /\ call'.op = "send" =>
          /\ Len(delivered') = Len(delivered)
                 + (IF _run # None /\ _connection_id # None THEN 1 ELSE 0)
          /\ SubSeq(delivered', 1, Len(delivered)) = delivered
          /\ UNCHANGED << _run, _connection_id, setting, dispatched,
                          tool_vars >>]_vars

\* three sends of which one was delivered, the last one dropped with a
\* connection id bound and no run
C11_Witness ==
    /\ call.op = "send"
    /\ calls = 3
    /\ Len(emitted) = 3
    /\ Len(delivered) = 1
    /\ _run = None
    /\ _connection_id # None

\* C16: invoke_async_funct hands nothing to the Lambda invoker when no run
\* is bound; with a run bound it hands over exactly one invocation of type
\* "Event", whose params are the caller's with thread_uuid, run_uuid and
\* updated_by set from the run, over the caller's values of these keys; the
\* bound run stays as it was.
C16_OneDispatchWithRunParams ==
    [][calls' = calls + 1 /\ call'.op = "invoke_async" =>
          /\ _run' = _run
          /\ IF _run = None THEN dispatched' = dispatched
             ELSE LET run == TheValue(_run)
                      given == call'.pending
                      d == dispatched'[Len(dispatched')]
                  IN  /\ Len(dispatched') = Len(dispatched) + 1
                      /\ SubSeq(dispatched', 1, Len(dispatched)) = dispatched
                      /\ d.function_name = call'.format
                      /\ d.invocation_type = "Event"
                      /\ DOMAIN d.params = DOMAIN given \cup
                             {"thread_uuid", "run_uuid", "updated_by"}
                      /\ d.params["thread_uuid"] = run.thread.thread_uuid
                      /\ d.params["run_uuid"] = run.run_uuid
                      /\ d.params["updated_by"] = run.updated_by
                      /\ \A k \in DOMAIN given \ {"thread_uuid", "run_uuid",
                                                  "updated_by"} :
                             d.params[k] = given[k]]_vars

\* an invocation whose caller gave a run_uuid of its own, dispatched after
\* one that was dropped for want of a run
C16_Witness ==
    /\ call.op = "invoke_async"
    /\ calls >= 2
    /\ Len(dispatched) = 1
    /\ "run_uuid" \in DOMAIN call.pending
    /\ call.pending["run_uuid"] # dispatched[1].params["run_uuid"]

\* C17: while a run and a connection id are bound, each text or JSON call
\* hands to the delivery interface one envelope per chunk it sent, in the
\* order sent, each with the chunk's index, data format, content and end flag
\* and with the message group "{connection_id}-{run_uuid}".
C17_EnvelopesFollowChunks ==
    [][calls' = calls + 1 /\ _run # None /\ _connection_id # None =>
          /\ delivered' = delivered \o
                 [n \in 1..Len(out') |-> EnvelopeOf(out'[n])]
          /\ \A n \in 1..Len(delivered') :
                 delivered'[n].message_group_id = "conn-1-run-1"]_vars

\* a text call that sent several chunks and a JSON call, all delivered
C17_Witness ==
    /\ Len(delivered) >= 3
    /\ Len(delivered) = Len(emitted)
    /\ call.op = "json"
    /\ Len(out) = 1
    /\ \A n \in 1..Len(delivered) :
           /\ delivered[n].data.index = n - 1
           /\ delivered[n].data.chunk_delta = emitted[n].chunk_delta

\* some registered MCP client lists the name among its tools
InRemoteRegistry(function_name) ==
    \E n \in 1..Len(mcp_http_clients) :
        \E t \in 1..Len(mcp_http_clients[n].tools) :
            mcp_http_clients[n].tools[t] = function_name

\* the model family is one of gemini, claude, openai
Recognized(llm_name) == llm_name \in {"gemini", "claude", "openai"}

\* construction has ended, with a handler or with an exception
Constructed == phase \in {"ready", "unsupported_llm", "list_failed"}

\* for openai the configuration's tools end with one reference per MCP
\* server, in order, each with require_approval "never", in front of them
\* only what the configuration held; no session was opened and no client
\* registered
NativeReferencesServers ==
    phase = "ready" /\ agent.llm_name = "openai" =>
        /\ sessions.opened = 0
        /\ mcp_http_clients = <<>>
        /\ IF agent.mcp_servers = None
           THEN \/ agent.tools = None
                \/ \A n \in 1..Len(TheValue(agent.tools)) :
                       TheValue(agent.tools)[n].type # "mcp"
           ELSE LET servers == TheValue(agent.mcp_servers)
                    tools == TheValue(agent.tools)
                    kept == Len(tools) - Len(servers)
                IN  /\ agent.tools # None
                    /\ kept >= 0
                    /\ \A n \in 1..kept : tools[n].type # "mcp"
                    /\ \A n \in 1..Len(servers) :
                           /\ tools[kept + n].type = "mcp"
                           /\ tools[kept + n].server_label = servers[n].name
                           /\ tools[kept + n].server_url =
                                  servers[n].setting.base_url
                           /\ tools[kept + n].headers =
                                  servers[n].setting.headers
                           /\ tools[kept + n].require_approval = "never"

\* C12: get_function of a name that a registered MCP client lists returns a
\* handle on a client that lists it, with no module-cache check or fetch on
\* the way; get_function of a name that is in no registry, remote or local,
\* logs and raises, and returns no handle.
C12_RemoteNameResolvesWithoutCache ==
    resolved.outcome # "none" =>
        IF InRemoteRegistry(resolved.name)
        THEN /\ resolved.outcome = "handle"
             /\ resolved.module_cache = <<>>
             /\ resolved.client \in 1..Len(mcp_http_clients)
             /\ \E t \in 1..Len(mcp_http_clients[resolved.client].tools) :
                    mcp_http_clients[resolved.client].tools[t] = resolved.name
        ELSE resolved.name \notin agent.functions =>
                 /\ resolved.outcome = "raised"
                 /\ resolved.logged
                 /\ resolved.client = 0

\* "foo", listed by both of two registered clients, resolved to a handle
C12_Witness ==
    /\ resolved.name = "foo"
    /\ resolved.outcome = "handle"
    /\ Len(mcp_http_clients) = 2
    /\ resolved.client = 1

\* C13, as stated: get_function raises only for a name that is neither in a
\* remote registry nor in the agent's local function registry; a name of the
\* local registry that no MCP client lists resolves to a handle.
C13_RaisesOnlyWhenInNoRegistry ==
    /\ resolved.outcome = "raised" =>
           /\ ~InRemoteRegistry(resolved.name)
           /\ resolved.name \notin agent.functions
    /\ resolved.outcome # "none" /\ resolved.name \in agent.functions =>
           resolved.outcome = "handle"

\* C14: a session opened by list_tools or by a tool call is released by the
\* time the operation hands control back, whether the remote call returned
\* or raised: no session is open between operations, and never more than one
\* is open.
C14_SessionsScoped ==
    /\ sessions.open \in {0, 1}
    /\ task.pc \in {"idle", "enter"} => sessions.open = 0
    /\ task.pc = "in_session" => sessions.open = 1

\* a tool call that raised, after construction listed the tools of two
\* servers: three sessions opened, none left open
C14_Witness ==
    /\ task = Idle
    /\ resolved.result = "raised"
    /\ sessions.opened = 3
    /\ sessions.open = 0

\* C15, as stated: construction for a model family other than gemini, claude
\* and openai raises the unsupported-model exception; for openai it appends
\* one server reference per MCP server with require_approval "never", opens
\* no session and registers no client.
C15_UnrecognizedFamilyRefused ==
    /\ Constructed /\ ~Recognized(agent.llm_name) => phase = "unsupported_llm"
    /\ NativeReferencesServers

\* C15, amended: construction for a model family other than gemini, claude
\* and openai raises the unsupported-model exception when the agent has an
\* mcp_servers entry (even an empty one) and succeeds, leaving the tools as
\* they were, when it has none; for openai as stated.
C15_UnrecognizedFamilyRefusedWithServers ==
    /\ Constructed /\ ~Recognized(agent.llm_name) =>
           IF agent.mcp_servers # None
           THEN phase = "unsupported_llm"
           ELSE phase = "ready" /\ mcp_http_clients = <<>>
    /\ phase = "unsupported_llm" =>
           ~Recognized(agent.llm_name) /\ agent.mcp_servers # None
    /\ NativeReferencesServers

\* an agent of an unknown family with an empty mcp_servers list, refused
C15_Witness ==
    /\ phase = "unsupported_llm"
    /\ agent.llm_name = "llama"
    /\ agent.mcp_servers = Some(<<>>)

====
